---- MODULE Spec2Model ----
(***************************************************************************)
(* Model of the tsgrep VS Code extension (src/src/extension.ts) and of its *)
(* keyed session store (ObjectStore).                                      *)
(*                                                                         *)
(* Strings are sequences of symbols.  A symbol is one character ("/", ".", *)
(* ",", " ") or an indivisible run of letters ("ts", "src", "Extensions"). *)
(* Option values are sequences of length 0 (undefined) or 1 (a value).     *)
(***************************************************************************)
EXTENDS Integers, Sequences, FiniteSets, TLC

\* ------------------------------------------------------------------ bounds
MaxMenus == 2      \* invocations of the tsgrep.search command
MaxSubmits == 1    \* non-empty queries submitted
MaxPanels == 2     \* preview panels created
MaxPathLen == 2    \* length of a directory entry (RootSpec)
MaxDirs == 2       \* number of directory entries (RootSpec)

\* ------------------------------------------------------------ option type
None == <<>>
Some(v) == <<v>>
IsSome(o) == Len(o) > 0
Val(o) == o[1]
OrElse(o, d) == IF IsSome(o) THEN o[1] ELSE d

\* --------------------------------------------------------- string helpers
RECURSIVE IndexOf(_, _, _)
IndexOf(s, c, i) ==
  IF i > Len(s) THEN 0
  ELSE IF s[i] = c THEN i
  ELSE IndexOf(s, c, i + 1)

\* String.prototype.split(sep) for a one-symbol separator: "" gives [""]
RECURSIVE Split(_, _)
Split(s, sep) ==
  LET i == IndexOf(s, sep, 1) IN
  IF i = 0 THEN << s >>
  ELSE << SubSeq(s, 1, i - 1) >> \o Split(SubSeq(s, i + 1, Len(s)), sep)

RECURSIVE TrimStart(_)
TrimStart(s) ==
  IF Len(s) > 0 /\ s[1] = " " THEN TrimStart(Tail(s)) ELSE s

RECURSIVE TrimEnd(_)
TrimEnd(s) ==
  IF Len(s) > 0 /\ s[Len(s)] = " " THEN TrimEnd(SubSeq(s, 1, Len(s) - 1)) ELSE s

\* String.prototype.trim
Trim(s) == TrimEnd(TrimStart(s))

\* Array.prototype.join(sep), sep a string
RECURSIVE JoinStr(_, _)
JoinStr(list, sep) ==
  IF Len(list) = 0 THEN << >>
  ELSE IF Len(list) = 1 THEN list[1]
  ELSE list[1] \o sep \o JoinStr(Tail(list), sep)

\* String.prototype.includes(kw) for a keyword that is one symbol
Includes(s, kw) == \E i \in 1..Len(s) : s[i] = kw

\* newValue.split(',').map((x) => x.trim())
ParseList(raw) ==
  LET parts == Split(raw, ",")
  IN [i \in 1..Len(parts) |-> Trim(parts[i])]

\* ----------------------------------------------------------- path helpers
\* path.isAbsolute (posix)
isAbsolute(p) == Len(p) > 0 /\ p[1] = "/"

\* posix normalizeString: resolves "." and ".." segments
RECURSIVE NormalizeSegs(_, _, _)
NormalizeSegs(segs, acc, allowAboveRoot) ==
  IF Len(segs) = 0 THEN acc
  ELSE
    LET s == Head(segs)
        rest == Tail(segs)
    IN IF s = << >> \/ s = << "." >>
       THEN NormalizeSegs(rest, acc, allowAboveRoot)
       ELSE IF s = << ".", "." >>
       THEN IF Len(acc) > 0 /\ acc[Len(acc)] # << ".", "." >>
            THEN NormalizeSegs(rest, SubSeq(acc, 1, Len(acc) - 1), allowAboveRoot)
            ELSE IF allowAboveRoot
            THEN NormalizeSegs(rest, Append(acc, s), allowAboveRoot)
            ELSE NormalizeSegs(rest, acc, allowAboveRoot)
       ELSE NormalizeSegs(rest, Append(acc, s), allowAboveRoot)

\* path.normalize (posix)
Normalize(p) ==
  IF Len(p) = 0 THEN << "." >>
  ELSE
    LET abs == isAbsolute(p)
        trailing == p[Len(p)] = "/"
        body == JoinStr(NormalizeSegs(Split(p, "/"), << >>, ~abs), << "/" >>)
    IN IF Len(body) = 0
       THEN IF abs THEN << "/" >>
            ELSE IF trailing THEN << ".", "/" >> ELSE << "." >>
       ELSE (IF abs THEN << "/" >> ELSE << >>) \o body
            \o (IF trailing THEN << "/" >> ELSE << >>)

\* path.join(a, b) (posix): empty arguments are skipped
PathJoin(a, b) ==
  IF Len(a) = 0 /\ Len(b) = 0 THEN << "." >>
  ELSE IF Len(a) = 0 THEN Normalize(b)
  ELSE IF Len(b) = 0 THEN Normalize(a)
  ELSE Normalize(a \o << "/" >> \o b)

\* Array.from(new Set(xs)): first occurrence kept, insertion order
RECURSIVE Dedup(_, _)
Dedup(xs, acc) ==
  IF Len(xs) = 0 THEN acc
  ELSE IF \E i \in 1..Len(acc) : acc[i] = Head(xs)
  THEN Dedup(Tail(xs), acc)
  ELSE Dedup(Tail(xs), Append(acc, Head(xs)))

\* workspacePaths.forEach(w => folders.forEach(f => finalPaths.push(...)))
RECURSIVE FinalPaths(_, _)
FinalPaths(wsPaths, folders) ==
  IF Len(wsPaths) = 0 THEN << >>
  ELSE [j \in 1..Len(folders) |->
          IF isAbsolute(folders[j]) THEN folders[j]
          ELSE PathJoin(Head(wsPaths), folders[j])]
       \o FinalPaths(Tail(wsPaths), folders)

generateCustomFolderPathsNoDedup(folders, wsPaths) == FinalPaths(wsPaths, folders)
generateCustomFolderPaths(folders, wsPaths) == Dedup(FinalPaths(wsPaths, folders), << >>)

\* foldersToSearch of getSearchResults
FoldersToSearch(userDirectories, wsPaths) ==
  IF Len(userDirectories) > 0
  THEN generateCustomFolderPaths(userDirectories, wsPaths)
  ELSE wsPaths

\* ---------------------------------------------------------------- state
VARIABLES
  phase,            \* "inactive" | "active" | "deactivated"
  store,            \* ObjectStore: one option per well-known key
  workspaceFolders, \* vscode.workspace.workspaceFolders as fsPath strings
  chan,             \* the output channel: [state, lines]
  menus,            \* settings-menu pickers, by creation order
  pickers,          \* results pickers, by creation order
  panels,           \* preview webview panels, by creation order
  visible,          \* the quick input the host currently shows
  notes,            \* notifications shown so far, counted by kind
  searchCalls,      \* invocations of the search collaborator
  navs,             \* openFileAtLine calls, by call order
  pool,             \* worker pool / query cache release counters
  submits,          \* non-empty queries submitted so far
  toggles,          \* effective ignore-file flag before each of the last two toggles
  pure              \* input/output of the pure-function specifications, and
                    \* the outcomes kept by the watched specification

vars == << phase, store, workspaceFolders, chan, menus, pickers, panels,
           visible, notes, searchCalls, navs, pool, submits, toggles, pure >>

uiVars == << phase, store, workspaceFolders, chan, menus, pickers, panels,
             visible, notes, searchCalls, navs, pool, submits, toggles >>

\* ------------------------------------------------------- ObjectStore
EmptyStore ==
  [ previewPanel |-> None, outputChannel |-> None, lastQuery |-> None,
    gitIgnore |-> None, extenstion |-> None, directory |-> None,
    ignores |-> None, quickPick |-> None ]

DefaultExtensions == << <<"js">>, <<"jsx">>, <<"ts">>, <<"tsx">> >>

\* objectStore.get(KEY) ?? default
GitIgnoreOf(st) == OrElse(st.gitIgnore, TRUE)
ExtensionsOf(st) == OrElse(st.extenstion, DefaultExtensions)
DirectoriesOf(st) == OrElse(st.directory, << >>)
IgnoresOf(st) == OrElse(st.ignores, << >>)

\* ------------------------------------------------------------ inputs
W1 == << "/", "w1" >>
W2 == << "/", "w2" >>
WorkspaceChoices == { << >>, << W1, W2 >> }

\* raw texts typed into a list-field prompt: the full run edits fields with
\* the empty text only, the settings menu on its own with longer texts
PromptInputs == { << >> }
MenuPromptInputs ==
  { << >>,
    << " ", "ts", ",", "js", " " >>,
    << "src", ",", " ", "Extensions" >> }

\* texts typed into the query prompt ("" is the empty submission)
QueryInputs == { "", "foo" }

\* the files on disk while a search runs: a.ts has three lines, b.ts two,
\* gone.ts was deleted
FilesAtSearch ==
  [f \in {"a.ts", "b.ts", "gone.ts"} |->
     CASE f = "a.ts" -> Some(<< " ", "x", " ", "\n", "y", "\n", " ", "z" >>)
       [] f = "b.ts" -> Some(<< "p", "\n", "q", " " >>)
       [] OTHER -> None]

\* fs.existsSync(file)
existsSync(fs, file) == IsSome(fs[file])

\* readContent(file, line) of the aggregation
readContent(fs, file, line) ==
  IF ~existsSync(fs, file) THEN << >>
  ELSE LET lines == Split(Val(fs[file]), "\n")
       IN IF line < 1 \/ line > Len(lines) THEN << >>
          ELSE Trim(lines[line])

\* results as the search collaborator reports them: ResA carries the raw
\* text of its line, ResB the trimmed text
ResA == [file |-> "a.ts", line |-> 1, content |-> << " ", "x", " " >>]
ResB == [file |-> "b.ts", line |-> 2, content |-> << "q" >>]
\* result lists the search collaborator may resolve with
SearchOutcomes == { << >>, << ResA, ResB, ResA >> }

\* ------------------------------------------------------------ menu rows
\* updateQuickPickItems: the five labels, each as the keywords of its fixed
\* text plus the user-controlled text that follows
RenderItems(st) ==
  << [fixed |-> "Enter Search Query", text |-> << >>],
     [fixed |-> "Git Ignore", text |-> << IF GitIgnoreOf(st) THEN "on" ELSE "off" >>],
     [fixed |-> "Extensions", text |-> JoinStr(ExtensionsOf(st), << "," >>)],
     [fixed |-> "Directories", text |-> JoinStr(DirectoriesOf(st), << "," >>)],
     [fixed |-> "Ignores", text |-> JoinStr(IgnoresOf(st), << "," >>)] >>

LabelIncludes(label, kw) == label.fixed = kw \/ Includes(label.text, kw)

\* the if / else-if chain of the menu's onDidAccept
Dispatch(label) ==
  IF LabelIncludes(label, "Enter Search Query") THEN "query"
  ELSE IF LabelIncludes(label, "Git Ignore") THEN "git"
  ELSE IF LabelIncludes(label, "Extensions") THEN "ext"
  ELSE IF LabelIncludes(label, "Directories") THEN "dir"
  ELSE IF LabelIncludes(label, "Ignores") THEN "ign"
  ELSE "none"

QueryRow == 1
GitIgnoreRow == 2
ExtensionsRow == 3
DirectoriesRow == 4
IgnoresRow == 5

\* ------------------------------------------------------------ host rules
NoInput == [kind |-> "none", id |-> 0]
MenuInput(m) == [kind |-> "menu", id |-> m]
PromptInput(m) == [kind |-> "prompt", id |-> m]
ResultsInput(r) == [kind |-> "results", id |-> r]

\* the host shows one quick input at a time: hiding a results picker queues
\* its onDidHide event
HideEventFor(pk, vis) ==
  IF vis.kind = "results" /\ pk[vis.id].live
  THEN [pk EXCEPT ![vis.id].hideEvent = TRUE]
  ELSE pk

\* a prompt that the host hides resolves with undefined; whichever branch
\* awaits it then only shows its menu again
CancelPrompt(mn, vis) ==
  IF vis.kind = "prompt"
  THEN [mn EXCEPT ![vis.id].pc = "promptCancelled", ![vis.id].prefill = << >>]
  ELSE mn

\* quickPick.show() of menu m: no effect on a disposed or already visible picker
ShowMenuVisible(mn, m, vis) == IF mn[m].live THEN MenuInput(m) ELSE vis
ShowMenuPickers(mn, m, vis, pk) ==
  IF mn[m].live /\ vis # MenuInput(m) THEN HideEventFor(pk, vis) ELSE pk
ShowMenuMenus(mn, m, vis) ==
  IF mn[m].live /\ vis # MenuInput(m) THEN CancelPrompt(mn, vis) ELSE mn

\* panel.dispose(): the panel dies and its onDidDispose hook, when one was
\* registered, deletes the slot only if the slot still holds this panel
DisposePanelPanels(pn, p) == [pn EXCEPT ![p].live = FALSE, ![p].hooked = FALSE]
DisposePanelStore(st, pn, p) ==
  IF pn[p].live /\ pn[p].hooked /\ st.previewPanel = Some(p)
  THEN [st EXCEPT !.previewPanel = None]
  ELSE st

\* if (previewPanel) { previewPanel.dispose(); objectStore.delete(KEY) }
DropPreviewPanels(st, pn) ==
  IF IsSome(st.previewPanel) THEN DisposePanelPanels(pn, Val(st.previewPanel)) ELSE pn
DropPreviewStore(st) == [st EXCEPT !.previewPanel = None]

\* showErrorMessage / showInformationMessage
NoNotes == [noWorkspace |-> 0, noResults |-> 0, failed |-> 0]
Notify(ns, kind) == [ns EXCEPT ![kind] = @ + 1]

IdleHandler == [pc |-> "idle", query |-> "", prefill |-> None, roots |-> << >>,
                opts |-> None]

\* a specification that starts with pure.op = "watch" keeps in pure the last
\* outcome its handlers report; the others leave pure as it is
Watch(p, outcome, query) ==
  IF p.op = "watch"
  THEN [op |-> "watch", last |-> outcome,
        submitted |-> IF outcome = "submitted" THEN Some(query) ELSE p.submitted]
  ELSE p

\* the watched specification runs one menu and one submission more than
\* the others
Bound(p, n) == IF p.op = "watch" THEN n + 1 ELSE n

InitUI(wsChoices) ==
  /\ phase = "inactive"
  /\ store = EmptyStore
  /\ workspaceFolders \in wsChoices
  /\ chan = [state |-> "none", lines |-> 0]
  /\ menus = << >>
  /\ pickers = << >>
  /\ panels = << >>
  /\ visible = NoInput
  /\ notes = NoNotes
  /\ searchCalls = 0
  /\ navs = << >>
  /\ pool = [destroyed |-> 0, cleared |-> 0]
  /\ submits = 0
  /\ toggles = << >>

Init ==
  /\ InitUI(WorkspaceChoices)
  /\ pure = [op |-> "none"]

\* activate(context)
activate ==
  /\ phase = "inactive"
  /\ phase' = "active"
  /\ chan' = [state |-> "live", lines |-> 0]
  /\ store' = [store EXCEPT !.outputChannel = Some(1)]
  /\ UNCHANGED << workspaceFolders, menus, pickers, panels, visible, notes,
                  searchCalls, navs, pool, submits, toggles, pure >>

\* ------------------------------------------------------ settings menu
\* if (existingQuickPick) existingQuickPick.dispose()
DisposeExistingSkipped(mn, st) == mn
DisposeExisting(mn, st) ==
  IF IsSome(st.quickPick)
  THEN [mn EXCEPT ![Val(st.quickPick)].live = FALSE, ![Val(st.quickPick)].items = << >>]
  ELSE mn

\* the tsgrep.search command: showSearchMenu()
showSearchMenu ==
  /\ phase = "active"
  /\ Len(menus) < Bound(pure, MaxMenus)
  /\ LET n == Len(menus) + 1
          \* disposing the visible picker hides it
          vis1 == IF IsSome(store.quickPick) /\ visible = MenuInput(Val(store.quickPick))
                  THEN NoInput ELSE visible
          newMenu == [live |-> TRUE, items |-> RenderItems(store)] @@ IdleHandler
     IN /\ menus' = Append(CancelPrompt(DisposeExisting(menus, store), vis1), newMenu)
        /\ store' = [store EXCEPT !.quickPick = Some(n)]
        /\ pickers' = HideEventFor(pickers, vis1)
        /\ visible' = MenuInput(n)
  /\ UNCHANGED << phase, workspaceFolders, chan, panels, notes, searchCalls,
                  navs, pool, submits, toggles, pure >>

\* the user closes the visible menu (Escape); the menu has no onDidHide handler
MenuDismiss(m) ==
  /\ visible = MenuInput(m)
  /\ visible' = NoInput
  /\ UNCHANGED << phase, store, workspaceFolders, chan, menus, pickers, panels,
                  notes, searchCalls, navs, pool, submits, toggles, pure >>

\* const shouldUseGitignore = !gitIgnore
ToggledStuck(st) == GitIgnoreOf(st)
Toggled(st) == ~GitIgnoreOf(st)

PromptPc(branch) ==
  CASE branch = "query" -> "promptQuery"
    [] branch = "ext" -> "promptExt"
    [] branch = "dir" -> "promptDir"
    [] branch = "ign" -> "promptIgn"

\* quickPick.onDidAccept of the menu, up to its first await
MenuAccept(m, row) ==
  /\ m \in 1..Len(menus)
  /\ menus[m].live
  /\ visible = MenuInput(m)
  /\ menus[m].pc = "idle"
  /\ LET branch == Dispatch(menus[m].items[row]) IN
     \/ /\ branch = "git"
        /\ store' = [store EXCEPT !.gitIgnore = Some(Toggled(store))]
        /\ menus' = [menus EXCEPT ![m].items = RenderItems(store')]
        /\ toggles' = SubSeq(<< GitIgnoreOf(store) >> \o toggles, 1,
                              IF Len(toggles) = 0 THEN 1 ELSE 2)
        /\ UNCHANGED visible
     \/ /\ branch \in {"query", "ext", "dir", "ign"}
        /\ menus' = [menus EXCEPT ![m].pc = PromptPc(branch),
                                  ![m].prefill = IF branch = "query"
                                                 THEN store.lastQuery ELSE None]
        /\ visible' = PromptInput(m)
        /\ UNCHANGED << store, toggles >>
  /\ UNCHANGED << phase, workspaceFolders, chan, pickers, panels, notes,
                  searchCalls, navs, pool, submits, pure >>

\* !vscode.workspace.workspaceFolders || workspaceFolders.length === 0
NoWorkspaceIgnored(ws) == FALSE
NoWorkspace(ws) == Len(ws) = 0

\* options handed to search(query, foldersToSearch, options)
SearchOptionsOrTrue(st) ==
  [gitignore |-> TRUE, ignore |-> IgnoresOf(st), ext |-> ExtensionsOf(st)]
SearchOptions(st) ==
  [gitignore |-> GitIgnoreOf(st), ignore |-> IgnoresOf(st), ext |-> ExtensionsOf(st)]

Finish(mn, m) ==
  [mn EXCEPT ![m].pc = "idle", ![m].query = "", ![m].prefill = None,
             ![m].roots = << >>, ![m].opts = None]

\* if (!query): undefined (cancelled) and the empty string are both falsy
NoQueryUndefinedOnly(ans) == ans = None
NoQuery(ans) == ans = None \/ Val(ans) = ""

\* quickPick.hide() of menu m after a query was submitted
HideMenuShown(m, vis) == MenuInput(m)
HideMenu(m, vis) == IF vis = MenuInput(m) THEN NoInput ELSE vis

\* objectStore.set(LAST_QUERY_KEY, query)
KeepLastQuerySkipped(st, ans) == st
KeepLastQuery(st, ans) == [st EXCEPT !.lastQuery = ans]

\* the query branch after showInputBox resolves, up to the await of search():
\* getSearchResults runs to its first await in the same turn
PromptQueryResolve(m, ans) ==
  /\ m \in 1..Len(menus)
  /\ menus[m].pc = "promptQuery"
  /\ visible = PromptInput(m)
  /\ LET vis1 == NoInput IN
     IF NoQuery(ans)
     THEN \* if (!query) { quickPick.show(); return; }
          /\ visible' = ShowMenuVisible(menus, m, vis1)
          /\ pickers' = ShowMenuPickers(menus, m, vis1, pickers)
          /\ menus' = Finish(ShowMenuMenus(menus, m, vis1), m)
          /\ pure' = Watch(pure, "emptyQuery", "")
          /\ UNCHANGED << store, notes, searchCalls, submits >>
     ELSE /\ submits < Bound(pure, MaxSubmits)
          /\ pure' = Watch(pure, "submitted", Val(ans))
          /\ submits' = submits + 1
          /\ store' = KeepLastQuery(store, ans)
          \* quickPick.hide()
          /\ visible' = HideMenu(m, vis1)
          /\ UNCHANGED pickers
          /\ IF NoWorkspace(workspaceFolders)
             THEN \* getSearchResults reports and returns []; the caller
                  \* then takes its length === 0 branch
                  /\ notes' = Notify(Notify(notes, "noWorkspace"), "noResults")
                  /\ menus' = Finish(menus, m)
                  /\ UNCHANGED searchCalls
             ELSE /\ searchCalls' = searchCalls + 1
                  /\ menus' = [menus EXCEPT
                       ![m].pc = "search",
                       ![m].query = Val(ans),
                       ![m].prefill = None,
                       ![m].roots = FoldersToSearch(DirectoriesOf(store'), workspaceFolders),
                       ![m].opts = Some(SearchOptions(store'))]
                  /\ UNCHANGED notes
  /\ UNCHANGED << phase, workspaceFolders, chan, panels, navs, pool, toggles >>

FieldOf(pc) ==
  CASE pc = "promptExt" -> "extenstion"
    [] pc = "promptDir" -> "directory"
    [] pc = "promptIgn" -> "ignores"

\* a list-field branch after showInputBox resolves
PromptFieldResolve(m, ans) ==
  /\ m \in 1..Len(menus)
  /\ menus[m].pc \in {"promptExt", "promptDir", "promptIgn"}
  /\ visible = PromptInput(m)
  /\ LET vis1 == NoInput
         st1 == IF IsSome(ans)
                THEN [store EXCEPT ![FieldOf(menus[m].pc)] = Some(ParseList(Val(ans)))]
                ELSE store
         \* updateQuickPickItems(): a disposed picker keeps no items
         mn1 == IF IsSome(ans) /\ menus[m].live
                THEN [menus EXCEPT ![m].items = RenderItems(st1)]
                ELSE menus
     IN /\ store' = st1
        /\ menus' = Finish(ShowMenuMenus(mn1, m, vis1), m)
        /\ visible' = ShowMenuVisible(menus, m, vis1)
        /\ pickers' = ShowMenuPickers(menus, m, vis1, pickers)
  /\ UNCHANGED << phase, workspaceFolders, chan, panels, notes, searchCalls,
                  navs, pool, submits, toggles, pure >>

\* any branch after its showInputBox was hidden by the host and resolved
\* with undefined: quickPick.show()
PromptCancelledResume(m) ==
  /\ m \in 1..Len(menus)
  /\ menus[m].pc = "promptCancelled"
  /\ menus' = Finish(ShowMenuMenus(menus, m, visible), m)
  /\ visible' = ShowMenuVisible(menus, m, visible)
  /\ pickers' = ShowMenuPickers(menus, m, visible, pickers)
  /\ UNCHANGED << phase, store, workspaceFolders, chan, panels, notes,
                  searchCalls, navs, pool, submits, toggles, pure >>

\* ------------------------------------------------------- search outcome
\* return searchResults: the collaborator's list is handed on as it is
getSearchResults(searchResults) == searchResults

\* if (searchResults.length === 0)
IsEmptyResultNever(res) == FALSE
IsEmptyResult(res) == Len(res) = 0

\* the try block after await getSearchResults(query) resolves
SearchResolve(m, found) ==
  /\ m \in 1..Len(menus)
  /\ menus[m].pc = "search"
  /\ LET res == getSearchResults(found) IN
     IF IsEmptyResult(res)
     THEN /\ notes' = Notify(notes, "noResults")
          /\ UNCHANGED << pickers, visible >>
     ELSE \* showResultsQuickPick(searchResults, query)
          /\ pickers' = Append(HideEventFor(pickers, visible),
                               [live |-> TRUE, items |-> res, hideEvent |-> FALSE])
          /\ visible' = ResultsInput(Len(pickers) + 1)
          /\ UNCHANGED notes
  /\ menus' = Finish(IF IsEmptyResult(getSearchResults(found))
                     THEN menus ELSE CancelPrompt(menus, visible), m)
  /\ UNCHANGED << phase, store, workspaceFolders, chan, panels, searchCalls,
                  navs, pool, submits, toggles, pure >>

\* vscode.window.showErrorMessage(`Search failed: ...`)
CatchNotesSilent(ns) == ns
CatchNotes(ns) == Notify(ns, "failed")

\* the catch block: await getSearchResults(query) rejected
SearchReject(m) ==
  /\ m \in 1..Len(menus)
  /\ menus[m].pc = "search"
  /\ chan' = IF IsSome(store.outputChannel)
             THEN [chan EXCEPT !.lines = @ + 1] ELSE chan
  /\ notes' = CatchNotes(notes)
  /\ menus' = Finish(menus, m)
  /\ UNCHANGED << phase, store, workspaceFolders, pickers, panels, visible,
                  searchCalls, navs, pool, submits, toggles, pure >>

\* ------------------------------------------------------- preview panel
\* showPreview(result); exists is fs.existsSync(result.file) at this moment
ShowPreviewPanels(st, pn, res, exists) ==
  Append(DropPreviewPanels(st, pn),
         [live |-> TRUE, hooked |-> exists])
ShowPreviewStore(st, pn, exists) ==
  IF exists
  THEN [st EXCEPT !.previewPanel = Some(Len(pn) + 1)]
  ELSE \* the early return inside try skips objectStore.set and onDidDispose
       DropPreviewStore(st)

\* quickPick.onDidChangeSelection with a non-empty selection
ResultsChangeSelection(r, i, exists) ==
  /\ r \in 1..Len(pickers)
  /\ visible = ResultsInput(r)
  /\ i \in 1..Len(pickers[r].items)
  /\ Len(panels) < MaxPanels
  /\ panels' = ShowPreviewPanels(store, panels, pickers[r].items[i], exists)
  /\ store' = ShowPreviewStore(store, panels, exists)
  /\ UNCHANGED << phase, workspaceFolders, chan, menus, pickers, visible, notes,
                  searchCalls, navs, pool, submits, toggles, pure >>

\* the user closes a preview panel: the host disposes it
PanelClosed(p) ==
  /\ p \in 1..Len(panels)
  /\ panels[p].live
  /\ panels' = DisposePanelPanels(panels, p)
  /\ store' = DisposePanelStore(store, panels, p)
  /\ UNCHANGED << phase, workspaceFolders, chan, menus, pickers, visible, notes,
                  searchCalls, navs, pool, submits, toggles, pure >>

\* ------------------------------------------------------ results browser
\* quickPick.onDidAccept of the results picker with an active item
ResultsAccept(r, i) ==
  /\ r \in 1..Len(pickers)
  /\ visible = ResultsInput(r)
  /\ i \in 1..Len(pickers[r].items)
  \* openFileAtLine(selection.result)
  /\ navs' = Append(navs, [res |-> pickers[r].items[i], pc |-> "opening"])
  \* quickPick.hide()
  /\ visible' = NoInput
  /\ pickers' = [pickers EXCEPT ![r].hideEvent = TRUE]
  /\ panels' = DropPreviewPanels(store, panels)
  /\ store' = DropPreviewStore(store)
  /\ UNCHANGED << phase, workspaceFolders, chan, menus, notes, searchCalls,
                  pool, submits, toggles, pure >>

\* the user closes the visible results picker (Escape)
ResultsDismiss(r) ==
  /\ r \in 1..Len(pickers)
  /\ visible = ResultsInput(r)
  /\ visible' = NoInput
  /\ pickers' = [pickers EXCEPT ![r].hideEvent = TRUE]
  /\ UNCHANGED << phase, store, workspaceFolders, chan, menus, panels, notes,
                  searchCalls, navs, pool, submits, toggles, pure >>

\* quickPick.onDidHide of the results picker
ResultsOnDidHide(r) ==
  /\ r \in 1..Len(pickers)
  /\ pickers[r].live
  /\ pickers[r].hideEvent
  /\ pickers' = [pickers EXCEPT ![r].live = FALSE, ![r].hideEvent = FALSE]
  /\ panels' = DropPreviewPanels(store, panels)
  /\ store' = DropPreviewStore(store)
  /\ UNCHANGED << phase, workspaceFolders, chan, menus, visible, notes,
                  searchCalls, navs, pool, submits, toggles, pure >>

\* ------------------------------------------------------------ navigator
\* a settled navigation no longer refers to its result
NoRes == [file |-> "", line |-> 0, content |-> << >>]

\* openTextDocument / showTextDocument / lineAt settle: either the line is
\* decorated and the 2000 ms timer armed, or the promise chain rejects with
\* no handler attached
NavSettle(n, ok) ==
  /\ n \in 1..Len(navs)
  /\ navs[n].pc = "opening"
  /\ navs' = [navs EXCEPT ![n] = [res |-> NoRes,
                                  pc |-> IF ok THEN "decorated" ELSE "unhandled"]]
  /\ UNCHANGED << phase, store, workspaceFolders, chan, menus, pickers, panels,
                  visible, notes, searchCalls, pool, submits, toggles, pure >>

\* decorationType.dispose() in the timer callback
ExpireForgotten(nv) == nv
Expire(nv) == [nv EXCEPT !.pc = "expired"]

\* setTimeout(() => decorationType.dispose(), 2000)
NavTimer(n) ==
  /\ n \in 1..Len(navs)
  /\ navs[n].pc = "decorated"
  /\ navs' = [navs EXCEPT ![n] = Expire(navs[n])]
  /\ UNCHANGED << phase, store, workspaceFolders, chan, menus, pickers, panels,
                  visible, notes, searchCalls, pool, submits, toggles, pure >>

\* ------------------------------------------------------------- teardown
\* the statements of deactivate that act, in program order; a statement that
\* throws ends the call, so the statements after it do not run
TeardownSteps == << "quickPick", "outputChannel", "workerPool", "queryCache", "store" >>
TeardownFaults == { "none", "quickPick", "outputChannel", "workerPool", "queryCache" }

StepOf(name) == CHOOSE k \in 1..Len(TeardownSteps) : TeardownSteps[k] = name
FailStep(fail) == IF fail = "none" THEN Len(TeardownSteps) + 1 ELSE StepOf(fail)
Runs(fail, name) == StepOf(name) < FailStep(fail)

\* workerPool.destroy(); queryCache.clear()
ReleasePoolIfPicker(pl, st, fail) ==
  IF IsSome(st.quickPick)
  THEN [destroyed |-> pl.destroyed + 1, cleared |-> pl.cleared + 1]
  ELSE pl
ReleasePool(pl, st, fail) ==
  [destroyed |-> pl.destroyed + (IF Runs(fail, "workerPool") THEN 1 ELSE 0),
   cleared |-> pl.cleared + (IF Runs(fail, "queryCache") THEN 1 ELSE 0)]

\* deactivate() in which the statement named by fail throws
Teardown(fail) ==
  /\ phase = "active"
  /\ fail = "quickPick" => IsSome(store.quickPick)
  /\ fail = "outputChannel" => IsSome(store.outputChannel)
  /\ phase' = "deactivated"
  \* if (quickPick) quickPick.dispose()
  /\ menus' = IF Runs(fail, "quickPick") THEN DisposeExisting(menus, store) ELSE menus
  /\ visible' = IF /\ Runs(fail, "quickPick")
                   /\ IsSome(store.quickPick)
                   /\ visible = MenuInput(Val(store.quickPick))
                THEN NoInput ELSE visible
  \* if (outputChannel) outputChannel.dispose()
  /\ chan' = IF Runs(fail, "outputChannel") /\ IsSome(store.outputChannel)
             THEN [chan EXCEPT !.state = "disposed"] ELSE chan
  /\ pool' = ReleasePool(pool, store, fail)
  \* objectStore.clear()
  /\ store' = IF Runs(fail, "store") THEN EmptyStore ELSE store
  /\ toggles' = << >>
  /\ UNCHANGED << workspaceFolders, pickers, panels, notes, searchCalls, navs,
                  submits, pure >>

\* deactivate() when no statement throws
deactivate == Teardown("none")

Next ==
  \/ activate
  \/ showSearchMenu
  \/ \E m \in 1..Len(menus) : MenuDismiss(m)
  \/ \E m \in 1..Len(menus), row \in 1..5 : MenuAccept(m, row)
  \/ \E m \in 1..Len(menus), ans \in {None} \cup {Some(q) : q \in QueryInputs} :
        PromptQueryResolve(m, ans)
  \/ \E m \in 1..Len(menus), ans \in {None} \cup {Some(t) : t \in PromptInputs} :
        PromptFieldResolve(m, ans)
  \/ \E m \in 1..Len(menus) : PromptCancelledResume(m)
  \/ \E m \in 1..Len(menus), found \in SearchOutcomes : SearchResolve(m, found)
  \/ \E m \in 1..Len(menus) : SearchReject(m)
  \/ \E r \in 1..Len(pickers), i \in 1..3, exists \in BOOLEAN :
        ResultsChangeSelection(r, i, exists)
  \/ \E p \in 1..Len(panels) : PanelClosed(p)
  \/ \E r \in 1..Len(pickers), i \in 1..3 : ResultsAccept(r, i)
  \/ \E r \in 1..Len(pickers) : ResultsDismiss(r)
  \/ \E r \in 1..Len(pickers) : ResultsOnDidHide(r)
  \/ \E n \in 1..Len(navs), ok \in BOOLEAN : NavSettle(n, ok)
  \/ \E n \in 1..Len(navs) : NavTimer(n)
  \/ deactivate

Spec == Init /\ [][Next]_vars

\* ------------------------------------------- the settings menu on its own
\* the user edits the configuration and never submits a non-empty query
MenuNext ==
  \/ activate
  \/ showSearchMenu
  \/ \E m \in 1..Len(menus) : MenuDismiss(m)
  \/ \E m \in 1..Len(menus), row \in 1..5 : MenuAccept(m, row)
  \/ \E m \in 1..Len(menus), ans \in {None, Some("")} : PromptQueryResolve(m, ans)
  \/ \E m \in 1..Len(menus), ans \in {None} \cup {Some(t) : t \in MenuPromptInputs} :
        PromptFieldResolve(m, ans)
  \/ \E m \in 1..Len(menus) : PromptCancelledResume(m)
  \/ deactivate

MenuSpec == Init /\ [][MenuNext]_vars

\* ------------------------------------- the menu and the search, watched
\* the query row and the ignore-file row of the settings menu and the search
\* that is started, without the edits of the lists and without the events of
\* the results browser, the preview and the navigator
\* texts typed into the query prompt of the watched specification
WatchedQueries == { "", "foo", "bar" }

QueryInit ==
  /\ InitUI(WorkspaceChoices)
  /\ pure = [op |-> "watch", last |-> "none", submitted |-> None]

QueryNext ==
  \/ activate
  \/ showSearchMenu
  \/ \E m \in 1..Len(menus) : MenuDismiss(m)
  \/ \E m \in 1..Len(menus), row \in {QueryRow, GitIgnoreRow} : MenuAccept(m, row)
  \/ \E m \in 1..Len(menus), ans \in {None} \cup {Some(q) : q \in WatchedQueries} :
        PromptQueryResolve(m, ans)
  \/ \E m \in 1..Len(menus) : PromptCancelledResume(m)
  \/ \E m \in 1..Len(menus), found \in SearchOutcomes : SearchResolve(m, found)
  \/ \E m \in 1..Len(menus) : SearchReject(m)
  \/ deactivate

QuerySpec == QueryInit /\ [][QueryNext]_vars

\* --------------------------------------- the navigator and its timers
\* searches, results browsers and navigations, without the previews and
\* the edits of the configuration; a timer that is armed fires in the end
NavNext ==
  \/ activate
  \/ showSearchMenu
  \/ \E m \in 1..Len(menus) : MenuAccept(m, QueryRow)
  \/ \E m \in 1..Len(menus), ans \in {None, Some("foo")} : PromptQueryResolve(m, ans)
  \/ \E m \in 1..Len(menus) : PromptCancelledResume(m)
  \/ \E m \in 1..Len(menus) : SearchResolve(m, << ResA, ResB >>)
  \/ \E r \in 1..Len(pickers), i \in 1..2 : ResultsAccept(r, i)
  \/ \E r \in 1..Len(pickers) : ResultsDismiss(r)
  \/ \E r \in 1..Len(pickers) : ResultsOnDidHide(r)
  \/ \E n \in 1..Len(navs), ok \in BOOLEAN : NavSettle(n, ok)
  \/ \E n \in 1..Len(navs) : NavTimer(n)
  \/ deactivate

\* at most one navigation per submitted query
NavIds == 1..(MaxSubmits + 1)

NavSpec ==
  /\ QueryInit
  /\ [][NavNext]_vars
  /\ \A n \in NavIds : WF_vars(NavTimer(n))

\* ------------------------------------------- teardown with failing steps
\* the settings menu on its own, torn down by a deactivate in which any one
\* disposal or release may throw
FaultNext ==
  \/ activate
  \/ showSearchMenu
  \/ \E m \in 1..Len(menus) : MenuDismiss(m)
  \/ \E m \in 1..Len(menus), row \in 1..5 : MenuAccept(m, row)
  \/ \E m \in 1..Len(menus), ans \in {None, Some("")} : PromptQueryResolve(m, ans)
  \/ \E m \in 1..Len(menus), ans \in {None} \cup {Some(t) : t \in PromptInputs} :
        PromptFieldResolve(m, ans)
  \/ \E m \in 1..Len(menus) : PromptCancelledResume(m)
  \/ \E fail \in TeardownFaults : Teardown(fail)

FaultSpec == Init /\ [][FaultNext]_vars

\* ------------------------------------------- root resolution, in isolation
PathSyms == { "/", ".", "a" }
StrsUpTo(syms, n) == UNION { [1..k -> syms] : k \in 0..n }
ListsUpTo(elems, n) == UNION { [1..k -> elems] : k \in 0..n }
Wa == << "/", "a" >>
Waa == << "/", "a", "/", "a" >>
RootWorkspaces == { << >>, << Wa >>, << Wa, Waa >>, << Waa, Wa >> }

RootInit ==
  /\ InitUI({ << >> })
  /\ pure \in [ op : {"rootsIn"},
                 dirs : ListsUpTo(StrsUpTo(PathSyms, MaxPathLen), MaxDirs),
                 ws : RootWorkspaces ]

\* foldersToSearch as getSearchResults computes it
ResolveRoots ==
  /\ pure.op = "rootsIn"
  /\ pure' = [op |-> "roots", dirs |-> pure.dirs, ws |-> pure.ws,
               out |-> FoldersToSearch(pure.dirs, pure.ws)]
  /\ UNCHANGED uiVars

RootNext == ResolveRoots

RootSpec == RootInit /\ [][RootNext]_vars

\* ---------------------------------------------------------- properties
Range(seq) == { seq[i] : i \in 1..Len(seq) }
NoDup(seq) == \A i, j \in 1..Len(seq) : seq[i] = seq[j] => i = j
LivePanels == { p \in 1..Len(panels) : panels[p].live }
LiveMenus == { m \in 1..Len(menus) : menus[m].live }
LivePickers == { r \in 1..Len(pickers) : pickers[r].live }

\* Sanity: a visible menu has no accept handler in flight
HandlerExclusive ==
  \A m \in 1..Len(menus) :
    /\ visible = MenuInput(m) => menus[m].pc = "idle"
    /\ visible = PromptInput(m) <=>
         menus[m].pc \in {"promptQuery", "promptExt", "promptDir", "promptIgn"}

\* C1: at most one preview panel is live (created and not disposed) after
\* any sequence of showPreview calls and panel disposals, including calls
\* for a result whose file no longer exists.
C1_SinglePreview == Cardinality(LivePanels) <= 1

\* C2: calling deactivate while a completed search has left the results
\* browser open with a live preview panel leaves no live UI resource (output
\* channel, menu picker, results picker, preview panel) and an empty store.
C2_Teardown ==
  [][ ( /\ deactivate
        /\ visible.kind = "results"
        /\ IsSome(store.previewPanel)
        /\ \A m \in 1..Len(menus) : menus[m].pc = "idle" )
      => ( /\ store' = EmptyStore
           /\ chan'.state # "live"
           /\ \A m \in 1..Len(menus') : ~menus'[m].live
           /\ \A r \in 1..Len(pickers') : ~pickers'[r].live
           /\ \A q \in 1..Len(panels') : ~panels'[q].live ) ]_vars

\* C3: the result list handed to the results browser never holds two
\* entries with the same (file, line), whatever the collaborator returned.
C3_Dedup == \A r \in 1..Len(pickers) : NoDup(pickers[r].items)

\* C4: with no directory entry the search roots are the workspace roots in
\* their order; otherwise they are, without duplicates, exactly the paths
\* d (d absolute) and join(w, d) (d relative) for workspace roots w and
\* directory entries d.
C4_RootResolution ==
  pure.op = "roots" =>
    IF Len(pure.dirs) = 0
    THEN pure.out = pure.ws
    ELSE /\ NoDup(pure.out)
         /\ Range(pure.out) =
              { IF isAbsolute(d) THEN d ELSE PathJoin(w, d) :
                  << w, d >> \in Range(pure.ws) \X Range(pure.dirs) }

\* C4 witness: two workspace roots and two entries, one absolute and one
\* relative, resolved to fewer than four roots because of duplicates
C4_Witness ==
  /\ pure.op = "roots"
  /\ Len(pure.ws) = 2
  /\ Len(pure.dirs) = 2
  /\ isAbsolute(pure.dirs[1])
  /\ ~isAbsolute(pure.dirs[2])
  /\ Len(pure.out) = 3

\* C5: every live settings-menu picker is the one held in the store, so at
\* most one is live; a new menu is stored only after the previous one was
\* disposed.
C5_SingleMenu ==
  /\ Cardinality(LiveMenus) <= 1
  /\ \A m \in LiveMenus : store.quickPick = Some(m)

\* C5 witness: the command was invoked again while the first menu's handler
\* was waiting (on a prompt or on a search); the first menu is disposed
C5_Witness ==
  /\ Len(menus) = 2
  /\ ~menus[1].live
  /\ menus[1].pc # "idle"
  /\ menus[2].live

\* C6: when the search call rejects, the handler appends one line to the
\* output channel if the store holds one, shows exactly one failure
\* notification, opens no results browser and calls the search no further.
C6_SearchFailure ==
  [][ \A m \in 1..Len(menus) :
        SearchReject(m) =>
          /\ notes' = Notify(notes, "failed")
          /\ chan'.lines = chan.lines + (IF IsSome(store.outputChannel) THEN 1 ELSE 0)
          /\ pickers' = pickers
          /\ panels' = panels
          /\ searchCalls' = searchCalls
          /\ menus'[m].pc = "idle" ]_vars

\* C6 witness: a search was rejected while the channel was in the store
C6_Witness ==
  /\ notes = Notify(NoNotes, "failed")
  /\ chan.lines = 1
  /\ searchCalls = 1

\* C7: with no workspace root open, every submitted query is answered with
\* the no-workspace error, the search collaborator is never invoked and no
\* results browser is opened.
C7_NoWorkspace ==
  Len(workspaceFolders) = 0 =>
    /\ searchCalls = 0
    /\ Len(pickers) = 0
    /\ notes.noWorkspace = submits

\* C7 witness: a non-empty query was submitted with no workspace root
C7_Witness ==
  /\ Len(workspaceFolders) = 0
  /\ submits = 1
  /\ store.lastQuery = Some("foo")

\* C8: every results browser holds a non-empty list; when a search resolves
\* with no result a notification is shown and neither a results picker nor
\* a preview panel is created.
C8_ZeroResults ==
  [][ /\ \A r \in 1..Len(pickers') : Len(pickers'[r].items) > 0
      /\ \A m \in 1..Len(menus) :
            SearchResolve(m, << >>) =>
              /\ notes' = Notify(notes, "noResults")
              /\ pickers' = pickers
              /\ panels' = panels ]_vars

\* C8 witness: a search was run and returned nothing
C8_Witness ==
  /\ searchCalls = 1
  /\ notes = Notify(NoNotes, "noResults")
  /\ Len(pickers) = 0
  /\ \A m \in 1..Len(menus) : menus[m].pc = "idle"

\* C9: selecting the ignore-file row flips the flag (the unset default
\* becomes false), opens no prompt, and leaves the three list fields and the
\* last query as they were; after two toggles the flag has the value it had
\* before them.
C9_ToggleTwice ==
  [][ \A m \in 1..Len(menus) :
        MenuAccept(m, GitIgnoreRow) =>
          /\ GitIgnoreOf(store') = ~GitIgnoreOf(store)
          /\ store.gitIgnore = None => store'.gitIgnore = Some(FALSE)
          /\ Len(toggles') = 2 => GitIgnoreOf(store') = toggles'[2]
          /\ visible' = visible
          /\ menus'[m].pc = "idle"
          /\ store'.extenstion = store.extenstion
          /\ store'.directory = store.directory
          /\ store'.ignores = store.ignores
          /\ store'.lastQuery = store.lastQuery ]_vars

\* C9 witness: the flag started unset and was toggled twice
C9_Witness ==
  /\ Len(toggles) = 2
  /\ toggles[2] = TRUE
  /\ store.gitIgnore = Some(TRUE)

\* C10: submitting the empty string in the edit prompt of a list field sets
\* that field to a list with zero elements.
C10_EmptyEdit ==
  [][ \A m \in 1..Len(menus) :
        PromptFieldResolve(m, Some(<< >>)) =>
          Len(Val(store'[FieldOf(menus[m].pc)])) = 0 ]_vars

\* C11: every result in a results browser carries as content the trimmed
\* text of its 1-based line of its file as read at search time, and the
\* empty string when the file is missing or the line is out of range.
C11_LineExtraction ==
  \A r \in 1..Len(pickers) :
    \A i \in 1..Len(pickers[r].items) :
      pickers[r].items[i].content =
        readContent(FilesAtSearch, pickers[r].items[i].file, pickers[r].items[i].line)

\* C12: each run of deactivate calls the worker pool's destroy() once and
\* the query cache's clear() once, whether or not the store holds a menu
\* picker: both counters are 1 after deactivation and 0 before.
C12_ReleaseOnce ==
  /\ pool.destroyed = (IF phase = "deactivated" THEN 1 ELSE 0)
  /\ pool.cleared = (IF phase = "deactivated" THEN 1 ELSE 0)

\* C12 witness: deactivate ran while the store held no menu picker
C12_Witness ==
  /\ phase = "deactivated"
  /\ Len(menus) = 0
  /\ pool = [destroyed |-> 1, cleared |-> 1]

\* C13: accepting a highlighted result calls the Navigator once, on that
\* result, starts the disposal of the results picker (completed by its hide
\* handler), and leaves no preview panel live and the preview slot empty.
C13_Accept ==
  [][ \A r \in 1..Len(pickers) :
        /\ \A i \in 1..3 :
              ResultsAccept(r, i) =>
                /\ Len(navs') = Len(navs) + 1
                /\ navs'[Len(navs')].res = pickers[r].items[i]
                /\ pickers'[r].hideEvent
                /\ \A q \in 1..Len(panels') : ~panels'[q].live
                /\ store'.previewPanel = None
        /\ ResultsOnDidHide(r) => ~pickers'[r].live ]_vars

\* C14: dismissing the results picker without accepting calls no Navigator,
\* and its hide handler disposes the picker, leaves no preview panel live
\* and empties the preview slot.
C14_Dismiss ==
  [][ \A r \in 1..Len(pickers) :
        /\ ResultsDismiss(r) => navs' = navs /\ pickers'[r].hideEvent
        /\ (ResultsOnDidHide(r) /\ Len(navs) = 0) =>
              /\ navs' = navs
              /\ ~pickers'[r].live
              /\ store'.previewPanel = None
              /\ \A q \in 1..Len(panels') : ~panels'[q].live ]_vars

\* C15: selecting the row of extensions, directories or ignore patterns
\* opens the edit prompt of that field; cancelling the prompt leaves every
\* configuration field unchanged; a submission replaces exactly that field
\* with the comma-split, trimmed list and leaves the others unchanged; in
\* both cases the menu, when still live, is shown again.
C15_ListEdit ==
  [][ \A m \in 1..Len(menus) :
        /\ MenuAccept(m, ExtensionsRow) => menus'[m].pc = "promptExt"
        /\ MenuAccept(m, DirectoriesRow) => menus'[m].pc = "promptDir"
        /\ MenuAccept(m, IgnoresRow) => menus'[m].pc = "promptIgn"
        /\ (PromptFieldResolve(m, None) \/ PromptCancelledResume(m)) =>
              /\ store' = store
              /\ menus[m].live => visible' = MenuInput(m)
        /\ \A t \in MenuPromptInputs :
              PromptFieldResolve(m, Some(t)) =>
                /\ store' = [store EXCEPT ![FieldOf(menus[m].pc)] = Some(ParseList(t))]
                /\ menus[m].live => visible' = MenuInput(m) ]_vars

\* C16 as first stated: a query prompt that is cancelled or submitted empty
\* starts no search, changes neither the store nor the notifications, and a
\* settings menu is the visible input afterwards.
C16_EmptyQueryShown ==
  [][ \A m \in 1..Len(menus) :
        ( \/ PromptQueryResolve(m, None)
          \/ PromptQueryResolve(m, Some(""))
          \/ PromptCancelledResume(m) ) =>
          /\ searchCalls' = searchCalls
          /\ store' = store
          /\ notes' = notes
          /\ visible'.kind = "menu" ]_vars

\* C16, amended: a query prompt that is cancelled (by the user or by the
\* host) or submitted empty starts no search, changes neither the store
\* (last query, configuration) nor the notifications, opens no results
\* browser, and ends its handler; its settings menu is the visible input
\* afterwards exactly when that menu has not been disposed meanwhile.
C16_EmptyQuery ==
  [][ \A m \in 1..Len(menus) :
        ( \/ PromptQueryResolve(m, None)
          \/ PromptQueryResolve(m, Some(""))
          \/ PromptCancelledResume(m) ) =>
          /\ searchCalls' = searchCalls
          /\ submits' = submits
          /\ store' = store
          /\ notes' = notes
          /\ Len(pickers') = Len(pickers)
          /\ menus'[m].pc = "idle"
          /\ menus[m].live <=> visible' = MenuInput(m) ]_vars

\* C16 witness: after a search, the prompt came up again with the last
\* query and was answered with nothing; the menu is back and the last
\* query is still stored
C16_Witness ==
  /\ pure.op = "watch"
  /\ pure.last = "emptyQuery"
  /\ store.lastQuery = Some("foo")
  /\ searchCalls = 1
  /\ \E m \in 1..Len(menus) : visible = MenuInput(m) /\ menus[m].pc = "idle"

\* C17: while the session lasts, an open query prompt is pre-filled with the
\* most recent non-empty query submitted (with nothing before the first); a
\* non-empty submission is stored as the last query in the step that starts
\* the search and leaves the menu hidden; the end of a search, failed or
\* empty or not, leaves the last query stored.
C17_LastQuery ==
  [][ /\ \A m \in 1..Len(menus') :
           (phase' = "active" /\ menus'[m].pc = "promptQuery") =>
             menus'[m].prefill = pure'.submitted
      /\ \A m \in 1..Len(menus) :
           /\ \A q \in WatchedQueries \ {""} :
                 PromptQueryResolve(m, Some(q)) =>
                   /\ store'.lastQuery = Some(q)
                   /\ visible' = NoInput
                   /\ \/ NoWorkspace(workspaceFolders)
                      \/ /\ menus'[m].pc = "search"
                         /\ menus'[m].query = q
                         /\ searchCalls' = searchCalls + 1
           /\ (SearchReject(m) \/ \E found \in SearchOutcomes : SearchResolve(m, found)) =>
                 /\ store'.lastQuery = store.lastQuery
                 /\ phase = "active" => store.lastQuery = pure.submitted ]_vars

\* C17 witness: two queries were submitted and a search failed; the search
\* for "bar", submitted last, is pending and the prompt now open on another
\* menu shows "bar"
C17_Witness ==
  /\ pure.op = "watch"
  /\ submits = 2
  /\ notes.failed >= 1
  /\ \E m \in 1..Len(menus) :
        /\ menus[m].pc = "promptQuery"
        /\ menus[m].prefill = Some("bar")
  /\ \E m \in 1..Len(menus) : menus[m].pc = "search" /\ menus[m].query = "bar"

\* C18: the slot never refers to a disposed panel (the hook of the stored
\* panel clears it), and a panel stored in the slot stays there for as long
\* as it is live: no disposal of another panel and no other step removes it.
C18_DisposalHook ==
  [][ \A q \in 1..Len(panels') :
        /\ store'.previewPanel = Some(q) => panels'[q].live
        /\ (q <= Len(panels) /\ store.previewPanel = Some(q) /\ panels'[q].live) =>
              store'.previewPanel = Some(q) ]_vars

\* C19: deactivate disposes every UI resource the store refers to before it
\* clears the store: whatever the store referred to when deactivate began
\* (menu picker, output channel, preview panel) is disposed when the store
\* has been cleared.
C19_DisposeBeforeClear ==
  [][ (deactivate /\ store' = EmptyStore) =>
        /\ IsSome(store.quickPick) => ~menus'[Val(store.quickPick)].live
        /\ IsSome(store.outputChannel) => chan'.state = "disposed"
        /\ IsSome(store.previewPanel) => ~panels'[Val(store.previewPanel)].live ]_vars

\* C20: when one step of deactivate fails (disposing the menu picker or the
\* output channel, destroying the worker pool, clearing the query cache),
\* every other step still runs: the other resources are disposed or
\* released and the store is cleared.
C20_BestEffort ==
  [][ \A fail \in TeardownFaults :
        Teardown(fail) =>
          /\ store' = EmptyStore
          /\ fail # "workerPool" => pool'.destroyed = pool.destroyed + 1
          /\ fail # "queryCache" => pool'.cleared = pool.cleared + 1
          /\ (fail # "outputChannel" /\ IsSome(store.outputChannel)) =>
                chan'.state = "disposed"
          /\ (fail # "quickPick" /\ IsSome(store.quickPick)) =>
                ~menus'[Val(store.quickPick)].live ]_vars

\* C21: when a navigation fails (the file cannot be opened or the line is
\* outside the document), the failure is caught: one line is logged when
\* the store holds the output channel, one failure notification is shown,
\* and no rejection is left without a handler.
C21_NavigationFailure ==
  [][ \A n \in 1..Len(navs) :
        NavSettle(n, FALSE) =>
          /\ navs'[n].pc # "unhandled"
          /\ notes' = Notify(notes, "failed")
          /\ chan'.lines = chan.lines + (IF IsSome(store.outputChannel) THEN 1 ELSE 0) ]_vars

\* C22: a submitted query starts its search with the options as the store
\* holds them at that moment: gitignore is the flag as the last toggle left
\* it, ignore and ext are the lists as last edited, and a field never set
\* counts as true, [] and [js, jsx, ts, tsx].
C22_OptionsAtSearch ==
  [][ \A m \in 1..Len(menus) :
        (PromptQueryResolve(m, Some("foo")) /\ Len(workspaceFolders) > 0) =>
          /\ menus'[m].pc = "search"
          /\ Val(menus'[m].opts).gitignore =
                (IF store.gitIgnore = << >> THEN TRUE ELSE store.gitIgnore[1])
          /\ Val(menus'[m].opts).gitignore =
                (IF Len(toggles) = 0 THEN TRUE ELSE ~toggles[1])
          /\ Val(menus'[m].opts).ignore =
                (IF store.ignores = << >> THEN << >> ELSE store.ignores[1])
          /\ Val(menus'[m].opts).ext =
                (IF store.extenstion = << >>
                 THEN << <<"js">>, <<"jsx">>, <<"ts">>, <<"tsx">> >>
                 ELSE store.extenstion[1]) ]_vars

\* C22 witness: a search is pending that was started after one toggle and an
\* edit of the extensions, with the ignore patterns never set
C22_Witness ==
  \E m \in 1..Len(menus) :
    /\ menus[m].pc = "search"
    /\ Val(menus[m].opts).gitignore = FALSE
    /\ Val(menus[m].opts).ext = << << >> >>
    /\ Val(menus[m].opts).ignore = << >>
    /\ store.ignores = None

\* C23: a search that was pending when the extension was deactivated still
\* settles, but nothing is made of its outcome: no results browser, no
\* preview panel and no notification.
C23_DiscardedSearch ==
  [][ \A m \in 1..Len(menus) :
        ( /\ phase = "deactivated"
          /\ \/ SearchReject(m)
             \/ \E found \in SearchOutcomes : SearchResolve(m, found) ) =>
          /\ menus'[m].pc = "idle"
          /\ pickers' = pickers
          /\ panels' = panels
          /\ notes' = notes ]_vars

\* C24: while a search started from a menu is pending, neither that menu
\* nor a prompt of that menu is the visible input, so no accept event and no
\* prompt completion of that menu can start another search before the
\* pending one has settled.
C24_NoOverlap ==
  \A m \in 1..Len(menus) :
    menus[m].pc = "search" =>
      /\ visible # MenuInput(m)
      /\ visible # PromptInput(m)

\* C24 witness: two searches are pending at once, each started from its own
\* menu, while the prompt of a third menu is open
C24_Witness ==
  /\ Len(menus) = 3
  /\ menus[1].pc = "search"
  /\ menus[2].pc = "search"
  /\ visible = PromptInput(3)

\* C25: every decoration the Navigator applied is disposed in the end by
\* its own timer, whatever happens meanwhile (another navigation, the
\* closing of the results browser); a decoration once
\* disposed stays disposed and only its timer disposes it; the accept
\* handler returns with the navigation still opening, without waiting.
C25_DecorationExpiry ==
  /\ \A n \in NavIds :
        (n <= Len(navs) /\ navs[n].pc = "decorated")
          ~> (n <= Len(navs) /\ navs[n].pc = "expired")
  /\ [][ /\ \A n \in 1..Len(navs) :
             /\ navs[n].pc = "expired" => navs'[n].pc = "expired"
             /\ (navs[n].pc # "expired" /\ navs'[n].pc = "expired") =>
                   NavTimer(n) /\ navs[n].pc = "decorated"
         /\ \A r \in 1..Len(pickers), i \in 1..2 :
               ResultsAccept(r, i) => navs'[Len(navs')].pc = "opening" ]_vars

\* C25 witness: the decoration of the first navigation is still shown while
\* the second navigation, started later, has already lost its own, and no
\* results browser is open any more
C25_Witness ==
  /\ Len(navs) = 2
  /\ navs[1].pc = "decorated"
  /\ navs[2].pc = "expired"
  /\ \A r \in 1..Len(pickers) : ~pickers[r].live

\* C26: no step of a query's handling shows more than one notification; with
\* no workspace root only the no-workspace error is shown, and the
\* zero-results notification is shown only by a search that was run and
\* resolved with no result.
C26_OneNotification ==
  [][ /\ notes'.noWorkspace + notes'.noResults + notes'.failed
           <= notes.noWorkspace + notes.noResults + notes.failed + 1
      /\ notes'.noResults > notes.noResults =>
           \E m \in 1..Len(menus) : SearchResolve(m, << >>)
      /\ Len(workspaceFolders) = 0 => notes'.noResults = 0 ]_vars

====
